---- MODULE Spec2Model ----
(***************************************************************************)
(* Model of Thunder/__main__.py: the startup sequence of start_services,   *)
(* the plugin loader import_plugins, the three background tasks, the       *)
(* teardown in the finally block, and the process entry point.             *)
(*                                                                         *)
(* start_services is one coroutine.  A value of pc names the awaited call  *)
(* that is pending (invoked, not yet resolved) or, for the labels in       *)
(* SyncLabels, the synchronous statement about to run.  Each action        *)
(* resolves the pending call with one of its outcomes and runs the code up *)
(* to the next await.  The background tasks run on the same event loop, so *)
(* they take steps only while start_services is suspended in an await.     *)
(***************************************************************************)
EXTENDS Integers, Sequences, FiniteSets, TLC

\* ---------------------------------------------------------------- bounds
MaxWait == 1        \* FloodWait.value ranges over 1..MaxWait
MaxPlugins == 2     \* glob.glob(PLUGIN_PATH) yields at most this many files
MaxNotices == 1     \* restart notices the storage may hold
MaxIter == 2        \* iterations of schedule_token_cleanup that are counted
MaxRuns == 2        \* processes started one after the other

Waits == 1..MaxWait
PluginFiles == 1..MaxPlugins
NoticeIds == 1..MaxNotices

\* ------------------------------------------------------------- variables
VARIABLES
    pc,               \* position of start_services (pending await / statement)
    sequencer,        \* state of the try block of lines 103-137
    result,           \* how start_services ended: none, failed, returned, raised
    log,              \* calls made by start_services and their outcomes, in order
    storage,          \* message ids of the restart notices held by db
    restart_message_data, \* the local of line 121 (0 models None)
    username,         \* StreamBot.username (0 models unset)
    username_writes,  \* assignments to StreamBot.username (line 116)
    plugins,          \* the local list of line 61
    idx,              \* position of the for loop of line 69
    success_count,    \* the local of line 66
    failed_plugins,   \* the local of line 67
    attempted,        \* files the loop body has been entered for
    task,             \* state of each asyncio task
    cancelReq,        \* tasks with a cancellation requested and not yet delivered
    tc_iter,          \* completed iterations of schedule_token_cleanup (capped)
    tc_fails,         \* iterations in a row, up to now, that ended in an Exception
    tc_wait,          \* seconds slept in the iteration under way (line 172)
    ci,               \* position of the for loop of line 161
    idleRaised,       \* the finally block runs with an exception pending
    listener,         \* none, open, closed
    run,              \* number of the running process
    resolvedRuns      \* earlier processes that deleted a restart notice

idVars == <<username, username_writes>>
seqVars == <<sequencer, restart_message_data, idVars>>
plugVars == <<plugins, idx, success_count, failed_plugins, attempted>>
loopVars == <<tc_iter, tc_fails, tc_wait>>
taskVars == <<task, cancelReq, loopVars>>
downVars == <<ci, idleRaised, listener>>
procVars == <<run, resolvedRuns>>
vars == <<pc, result, log, storage, seqVars, plugVars, taskVars, downVars, procVars>>

\* --------------------------------------------------------------- helpers
Tasks == {"request_executor", "keepalive", "token_cleanup"}
TaskOrder == <<"request_executor", "keepalive", "token_cleanup">>
Terminated == {"done", "crashed", "cancelled"}

Call(op, a) == [op |-> op, ev |-> "call", arg |-> a]
Res(op, ev, a) == [op |-> op, ev |-> ev, arg |-> a]

\* Outcomes of the collaborators' calls.  "fw" is FloodWait carrying a wait,
\* "notmod" is MessageNotModified, "err" is any other Exception.
FloodWaits == [ev : {"fw"}, w : Waits]
Ok == [ev |-> "ok", w |-> 0]
Err == [ev |-> "err", w |-> 0]
NotMod == [ev |-> "notmod", w |-> 0]
ClientOutcomes == {Ok, Err} \cup FloodWaits
EditOutcomes == {Ok, Err, NotMod} \cup FloodWaits
PlainOutcomes == {Ok, Err}

\* Labels at which start_services is suspended in an await while background
\* tasks exist; the event loop runs the tasks only there.
SuspendedLabels == {"web_server", "app_runner_setup", "site_start", "idle",
                    "cleanup_clients", "rate_limiter_shutdown",
                    "app_runner_cleanup"}
SyncLabels == {"begin", "glob", "plugin_loop", "plugin_report",
               "create_tasks", "cancel", "finished", "exited"}

Init ==
    /\ pc = "begin"
    /\ sequencer = "Idle"
    /\ result = "none"
    /\ log = <<>>
    /\ storage \in SUBSET NoticeIds
    /\ restart_message_data = 0
    /\ username = 0
    /\ username_writes = 0
    /\ plugins = <<>>
    /\ idx = 0
    /\ success_count = 0
    /\ failed_plugins = <<>>
    /\ attempted = {}
    /\ task = [t \in Tasks |-> "none"]
    /\ cancelReq = {}
    /\ tc_iter = 0
    /\ tc_fails = 0
    /\ tc_wait = 0
    /\ ci = 0
    /\ idleRaised = FALSE
    /\ listener = "none"
    /\ run = 1
    /\ resolvedRuns = 0

\* ---------------------------------------------------- startup sequencer
\* Variant: the return of line 137 is missing, the function goes on.
AbortNoReturn(l) ==
    /\ pc' = "initialize_clients"
    /\ sequencer' = "Failed"
    /\ result' = result
    /\ log' = Append(l, [op |-> "initialize_clients", ev |-> "call", arg |-> 0])

\* Variant: the except clause of line 135 runs the teardown.
AbortWithTeardown(l) ==
    /\ pc' = "cleanup_clients"
    /\ sequencer' = "Failed"
    /\ result' = result
    /\ log' = Append(l, [op |-> "cleanup_clients", ev |-> "call", arg |-> 0])

\* except Exception (lines 135-137): log the error and return.
Abort(l) ==
    /\ pc' = "finished"
    /\ sequencer' = "Failed"
    /\ result' = "failed"
    /\ log' = l

\* Variant: the end of the try block goes back to set_commands().
BecomeReadyAgain(l) ==
    /\ pc' = "set_commands"
    /\ sequencer' = "CommandsRegistering"
    /\ result' = result
    /\ log' = Append(l, [op |-> "set_commands", ev |-> "call", arg |-> 0])

\* The try block completed (line 134 to 139): initialize_clients is awaited.
BecomeReady(l) ==
    /\ pc' = "initialize_clients"
    /\ sequencer' = "Ready"
    /\ result' = result
    /\ log' = Append(l, Call("initialize_clients", 0))

\* Lines 98-105: banner, then the first StreamBot.start() is awaited.
Begin ==
    /\ pc = "begin"
    /\ pc' = "start1"
    /\ sequencer' = "ClientConnecting"
    /\ log' = Append(log, Call("start", 0))
    /\ UNCHANGED <<result, storage, restart_message_data, idVars,
                   plugVars, taskVars, downVars, procVars>>

\* Variant: no except FloodWait clause, the first FloodWait aborts.
FirstAttemptNextNoRetry(o) == IF o.ev = "ok" THEN "proceed" ELSE "abort"

\* What follows the first attempt of a call wrapped in
\* try/except FloodWait (lines 104-108 and 110-114).
FirstAttemptNext(o) ==
    IF o.ev = "ok" THEN "proceed"
    ELSE IF o.ev = "fw" THEN "sleep"
    ELSE "abort"

\* Variant: a failure of the second attempt is swallowed.
SecondAttemptNextSwallow(o) == "proceed"

\* What follows the second attempt, made inside the except FloodWait clause:
\* any exception it raises reaches except Exception of line 135.
SecondAttemptNext(o) ==
    IF o.ev = "ok" THEN "proceed" ELSE "abort"

\* Line 105 resolves.
Start1 ==
    /\ pc = "start1"
    /\ \E o \in ClientOutcomes :
        LET l == Append(log, Res("start", o.ev, o.w)) IN
        CASE FirstAttemptNext(o) = "proceed" ->
                /\ pc' = "get_me1"
                /\ sequencer' = "IdentityFetching"
                /\ log' = Append(l, Call("get_me", 0))
                /\ result' = result
          [] FirstAttemptNext(o) = "sleep" ->
                /\ pc' = "sleep_start"
                /\ sequencer' = sequencer
                /\ log' = Append(l, Call("sleep", o.w))
                /\ result' = result
          [] OTHER -> Abort(l)
    /\ UNCHANGED <<storage, restart_message_data, idVars,
                   plugVars, taskVars, downVars, procVars>>

\* Line 107 resolves; line 108 awaits StreamBot.start() again.
SleepStart ==
    /\ pc = "sleep_start"
    /\ pc' = "start2"
    /\ log' = Append(log, Call("start", 0))
    /\ UNCHANGED <<sequencer, result, storage, restart_message_data, idVars,
                   plugVars, taskVars, downVars, procVars>>

\* Line 108 resolves.
Start2 ==
    /\ pc = "start2"
    /\ \E o \in ClientOutcomes :
        LET l == Append(log, Res("start", o.ev, o.w)) IN
        IF SecondAttemptNext(o) = "proceed"
        THEN /\ pc' = "get_me1"
             /\ sequencer' = "IdentityFetching"
             /\ log' = Append(l, Call("get_me", 0))
             /\ result' = result
        ELSE Abort(l)
    /\ UNCHANGED <<storage, restart_message_data, idVars,
                   plugVars, taskVars, downVars, procVars>>

\* Lines 116-119: the identity is cached and set_commands is awaited.
CacheIdentity(l) ==
    /\ username' = 1
    /\ username_writes' = username_writes + 1
    /\ pc' = "set_commands"
    /\ sequencer' = "CommandsRegistering"
    /\ log' = Append(l, Call("set_commands", 0))
    /\ result' = result

\* Line 111 resolves.
GetMe1 ==
    /\ pc = "get_me1"
    /\ \E o \in ClientOutcomes :
        LET l == Append(log, Res("get_me", o.ev, o.w)) IN
        CASE FirstAttemptNext(o) = "proceed" -> CacheIdentity(l)
          [] FirstAttemptNext(o) = "sleep" ->
                /\ pc' = "sleep_get_me"
                /\ sequencer' = sequencer
                /\ log' = Append(l, Call("sleep", o.w))
                /\ result' = result
                /\ UNCHANGED idVars
          [] OTHER -> Abort(l) /\ UNCHANGED idVars
    /\ UNCHANGED <<storage, restart_message_data,
                   plugVars, taskVars, downVars, procVars>>

\* Line 113 resolves; line 114 awaits StreamBot.get_me() again.
SleepGetMe ==
    /\ pc = "sleep_get_me"
    /\ pc' = "get_me2"
    /\ log' = Append(log, Call("get_me", 0))
    /\ UNCHANGED <<sequencer, result, storage, restart_message_data, idVars,
                   plugVars, taskVars, downVars, procVars>>

\* Line 114 resolves.
GetMe2 ==
    /\ pc = "get_me2"
    /\ \E o \in ClientOutcomes :
        LET l == Append(log, Res("get_me", o.ev, o.w)) IN
        IF SecondAttemptNext(o) = "proceed"
        THEN CacheIdentity(l)
        ELSE Abort(l) /\ UNCHANGED idVars
    /\ UNCHANGED <<storage, restart_message_data,
                   plugVars, taskVars, downVars, procVars>>

\* What follows set_commands (line 119): it is awaited inside the try block
\* with no handler of its own.
SetCommandsNext(o) ==
    IF o.ev = "ok" THEN "proceed" ELSE "abort"

\* Line 119 resolves; line 121 awaits db.get_restart_message().
SetCommands ==
    /\ pc = "set_commands"
    /\ \E o \in PlainOutcomes :
        LET l == Append(log, Res("set_commands", o.ev, 0)) IN
        IF SetCommandsNext(o) = "proceed"
        THEN /\ pc' = "get_restart_message"
             /\ sequencer' = "RestartNoticeResolving"
             /\ log' = Append(l, Call("get_restart_message", 0))
             /\ result' = result
        ELSE Abort(l)
    /\ UNCHANGED <<storage, restart_message_data, idVars,
                   plugVars, taskVars, downVars, procVars>>

\* Line 121 resolves: one stored notice, or None when there is none.
\* Line 122 decides whether the edit is attempted.
GetRestartMessage ==
    /\ pc = "get_restart_message"
    /\ IF storage = {}
       THEN /\ restart_message_data' = 0
            /\ BecomeReady(Append(log, Res("get_restart_message", "ok", 0)))
       ELSE \E m \in storage :
            /\ restart_message_data' = m
            /\ pc' = "edit_message_text"
            /\ log' = log \o <<Res("get_restart_message", "ok", m),
                               Call("edit_message_text", m)>>
            /\ UNCHANGED <<sequencer, result>>
    /\ UNCHANGED <<storage, idVars, plugVars, taskVars, downVars, procVars>>

\* Variant: no handler for FloodWait around the edit.
EditNextNoFloodHandler(o) ==
    CASE o.ev = "ok" -> "delete"
      [] o.ev = "notmod" -> "ready"
      [] OTHER -> "abort"

\* What follows the edit of lines 124-128 under the handlers of
\* lines 130-133 and 135.
EditNext(o) ==
    CASE o.ev = "ok" -> "delete"
      [] o.ev = "notmod" -> "ready"
      [] o.ev = "fw" -> "sleep"
      [] OTHER -> "abort"

\* Lines 124-128 resolve.
EditMessageText ==
    /\ pc = "edit_message_text"
    /\ \E o \in EditOutcomes :
        LET l == Append(log, Res("edit_message_text", o.ev, o.w)) IN
        CASE EditNext(o) = "delete" ->
                /\ pc' = "delete_restart_message"
                /\ log' = Append(l, Call("delete_restart_message",
                                         restart_message_data))
                /\ UNCHANGED <<sequencer, result>>
          [] EditNext(o) = "ready" -> BecomeReady(l)
          [] EditNext(o) = "sleep" ->
                /\ pc' = "sleep_edit"
                /\ log' = Append(l, Call("sleep", o.w))
                /\ UNCHANGED <<sequencer, result>>
          [] OTHER -> Abort(l)
    /\ UNCHANGED <<storage, restart_message_data, idVars,
                   plugVars, taskVars, downVars, procVars>>

\* Variant: the delete leaves the storage as it is.
DeleteNoticeNoop(s, m) == s

\* db.delete_restart_message(message_id): the notice with that id is removed.
DeleteNotice(s, m) == s \ {m}

\* Line 129 resolves.
DeleteRestartMessage ==
    /\ pc = "delete_restart_message"
    /\ storage' = DeleteNotice(storage, restart_message_data)
    /\ BecomeReady(Append(log, Res("delete_restart_message", "ok",
                                   restart_message_data)))
    /\ UNCHANGED <<restart_message_data, idVars,
                   plugVars, taskVars, downVars, procVars>>

\* Line 133 resolves: nothing follows it in the try block.
SleepEdit ==
    /\ pc = "sleep_edit"
    /\ BecomeReady(log)
    /\ UNCHANGED <<storage, restart_message_data, idVars,
                   plugVars, taskVars, downVars, procVars>>

\* ---------------------------------------------------------- then clients
\* The exception of a call awaited outside any try block leaves
\* start_services and reaches the handler of line 188.
Raise(l) ==
    /\ pc' = "finished"
    /\ result' = "raised"
    /\ log' = l

\* Line 140 resolves; line 141 calls import_plugins.
InitializeClients ==
    /\ pc = "initialize_clients"
    /\ \E o \in PlainOutcomes :
        LET l == Append(log, Res("initialize_clients", o.ev, 0)) IN
        IF o.ev = "ok"
        THEN /\ pc' = "glob"
             /\ log' = Append(l, Call("import_plugins", 0))
             /\ result' = result
        ELSE Raise(l)
    /\ UNCHANGED <<storage, seqVars, plugVars, taskVars, downVars, procVars>>

\* ---------------------------------------------------------- plugin loader
\* A plugin file either loads, or has no valid load specification
\* (line 76), or raises while its module executes (line 83).
LoadKinds == {"ok", "badspec", "exc"}

\* What glob.glob(PLUGIN_PATH) can return: distinct files, in any order.
GlobResults ==
    UNION { { s \in [1..n -> [name : PluginFiles, load : LoadKinds]] :
                \A i, j \in 1..n : i # j => s[i].name # s[j].name } :
            n \in 0..MaxPlugins }

\* Lines 61-67: the files are enumerated; with none, 0 is returned.
Glob ==
    /\ pc = "glob"
    /\ \E g \in GlobResults :
        IF g = <<>>
        THEN /\ pc' = "create_tasks"
             /\ log' = Append(log, Res("import_plugins", "ok", 0))
             /\ UNCHANGED plugVars
        ELSE /\ pc' = "plugin_loop"
             /\ plugins' = g
             /\ idx' = 1
             /\ success_count' = 0
             /\ failed_plugins' = <<>>
             /\ attempted' = {}
             /\ log' = log
    /\ UNCHANGED <<result, storage, seqVars, taskVars, downVars, procVars>>

\* One pass of the loop body (lines 70-88) over file p, from the counters
\* sc and fp: a failure is recorded under the file's name.
LoadOne(p, sc, fp) ==
    IF p.load = "ok"
    THEN [success_count |-> sc + 1, failed_plugins |-> fp]
    ELSE [success_count |-> sc, failed_plugins |-> Append(fp, p.name)]

\* Variant: an exception of a plugin ends the loop.
NextFileStopOnError(i, p) == IF p.load = "exc" THEN Len(plugins) + 1 ELSE i + 1

\* The file the loop turns to after file i of n; continue (line 79) and the
\* except clause (line 86) both go on with the next file.
NextFile(i, p) == i + 1

\* Lines 69-88, one file.
PluginLoop ==
    /\ pc = "plugin_loop"
    /\ LET p == plugins[idx]
           r == LoadOne(p, success_count, failed_plugins)
           n == NextFile(idx, p) IN
        /\ attempted' = attempted \cup {p.name}
        /\ success_count' = r.success_count
        /\ failed_plugins' = r.failed_plugins
        /\ idx' = n
        /\ pc' = IF n > Len(plugins) THEN "plugin_report" ELSE "plugin_loop"
    /\ UNCHANGED <<plugins, result, log, storage, seqVars, taskVars, downVars,
                   procVars>>

\* Lines 90-94: the totals are printed and success_count is returned; the
\* locals of import_plugins end with the call.
PluginReport ==
    /\ pc = "plugin_report"
    /\ pc' = "create_tasks"
    /\ log' = Append(log, Res("import_plugins", "ok", success_count))
    /\ plugins' = <<>>
    /\ idx' = 0
    /\ success_count' = 0
    /\ failed_plugins' = <<>>
    /\ attempted' = {}
    /\ UNCHANGED <<result, storage, seqVars, taskVars, downVars, procVars>>

\* -------------------------------------------------- tasks and web server
\* Variant: the identity is assigned again when the tasks are created.
CreateTasksWritesIdentity ==
    /\ pc = "create_tasks"
    /\ task' = [t \in Tasks |-> "created"]
    /\ pc' = "web_server"
    /\ username' = 1
    /\ username_writes' = username_writes + 1
    /\ log' = log \o <<Call("create_task", 1), Call("create_task", 2),
                       Call("create_task", 3), Call("web_server", 0)>>
    /\ UNCHANGED <<result, storage, sequencer, restart_message_data, plugVars,
                   cancelReq, loopVars, downVars, procVars>>

\* Lines 144-149: the three tasks are created, web_server() is awaited.
CreateTasks ==
    /\ pc = "create_tasks"
    /\ task' = [t \in Tasks |-> "created"]
    /\ pc' = "web_server"
    /\ log' = log \o <<Call("create_task", 1), Call("create_task", 2),
                       Call("create_task", 3), Call("web_server", 0)>>
    /\ UNCHANGED <<result, storage, seqVars, plugVars, cancelReq, loopVars,
                   downVars, procVars>>

\* Line 149 resolves; line 150 awaits app_runner.setup().
WebServer ==
    /\ pc = "web_server"
    /\ \E o \in PlainOutcomes :
        LET l == Append(log, Res("web_server", o.ev, 0)) IN
        IF o.ev = "ok"
        THEN /\ pc' = "app_runner_setup"
             /\ log' = Append(l, Call("app_runner_setup", 0))
             /\ result' = result
        ELSE Raise(l)
    /\ UNCHANGED <<storage, seqVars, plugVars, taskVars, downVars, procVars>>

\* Line 150 resolves; line 152 awaits site.start().
AppRunnerSetup ==
    /\ pc = "app_runner_setup"
    /\ \E o \in PlainOutcomes :
        LET l == Append(log, Res("app_runner_setup", o.ev, 0)) IN
        IF o.ev = "ok"
        THEN /\ pc' = "site_start"
             /\ log' = Append(l, Call("site_start", 0))
             /\ result' = result
        ELSE Raise(l)
    /\ UNCHANGED <<storage, seqVars, plugVars, taskVars, downVars, procVars>>

\* Line 152 resolves: the listener is open; line 159 awaits idle().
SiteStart ==
    /\ pc = "site_start"
    /\ \E o \in PlainOutcomes :
        LET l == Append(log, Res("site_start", o.ev, 0)) IN
        IF o.ev = "ok"
        THEN /\ pc' = "idle"
             /\ listener' = "open"
             /\ log' = Append(l, Call("idle", 0))
             /\ result' = result
        ELSE Raise(l) /\ listener' = listener
    /\ UNCHANGED <<storage, seqVars, plugVars, taskVars, ci, idleRaised,
                   procVars>>

\* ---------------------------------------------------------------- teardown
\* Variant: the finally block goes straight to cleanup_clients().
FinallyFirstReleaseFirst == "cleanup_clients"

\* The statement the finally block of line 160 begins with.
FinallyFirst == "cancel"

\* Line 159 resolves, by returning or by raising; the finally block begins.
Idle ==
    /\ pc = "idle"
    /\ \E o \in PlainOutcomes :
        /\ idleRaised' = (o.ev = "err")
        /\ IF FinallyFirst = "cancel"
           THEN /\ pc' = "cancel"
                /\ log' = Append(log, Res("idle", o.ev, 0))
           ELSE /\ pc' = "cleanup_clients"
                /\ log' = log \o <<Res("idle", o.ev, 0),
                                   Call("cleanup_clients", 0)>>
    /\ ci' = 1
    /\ UNCHANGED <<result, storage, seqVars, plugVars, taskVars, listener,
                   procVars>>

\* Variant: task.cancel() is not called.
CancelTaskNoop(req, t) == req

\* task.cancel(): a request to a task that has ended changes nothing.
CancelTask(req, t) ==
    IF task[t] \in Terminated THEN req ELSE req \cup {t}

\* Lines 161-164: one task.cancel() of the loop; after the last one,
\* cleanup_clients() is awaited.
Cancel ==
    /\ pc = "cancel"
    /\ cancelReq' = CancelTask(cancelReq, TaskOrder[ci])
    /\ IF ci = Len(TaskOrder)
       THEN /\ pc' = "cleanup_clients"
            /\ log' = log \o <<Call("cancel", ci), Call("cleanup_clients", 0)>>
            /\ ci' = ci
       ELSE /\ pc' = "cancel"
            /\ log' = Append(log, Call("cancel", ci))
            /\ ci' = ci + 1
    /\ UNCHANGED <<result, storage, seqVars, plugVars, task, loopVars,
                   idleRaised, listener, procVars>>

\* What follows a teardown call awaited in the finally block
\* (lines 164-166): none of them has a handler.
TeardownNext(o) ==
    IF o.ev = "ok" THEN "proceed" ELSE "raise"

\* Line 164 resolves; line 165 awaits rate_limiter.shutdown().
CleanupClients ==
    /\ pc = "cleanup_clients"
    /\ \E o \in PlainOutcomes :
        LET l == Append(log, Res("cleanup_clients", o.ev, 0)) IN
        IF TeardownNext(o) = "proceed"
        THEN /\ pc' = "rate_limiter_shutdown"
             /\ log' = Append(l, Call("rate_limiter_shutdown", 0))
             /\ result' = result
        ELSE Raise(l)
    /\ UNCHANGED <<storage, seqVars, plugVars, taskVars, downVars, procVars>>

\* Line 165 resolves; line 166 awaits app_runner.cleanup().
RateLimiterShutdown ==
    /\ pc = "rate_limiter_shutdown"
    /\ \E o \in PlainOutcomes :
        LET l == Append(log, Res("rate_limiter_shutdown", o.ev, 0)) IN
        IF TeardownNext(o) = "proceed"
        THEN /\ pc' = "app_runner_cleanup"
             /\ log' = Append(l, Call("app_runner_cleanup", 0))
             /\ result' = result
        ELSE Raise(l)
    /\ UNCHANGED <<storage, seqVars, plugVars, taskVars, downVars, procVars>>

\* Line 166 resolves: the listener is closed and start_services ends, with
\* the exception of idle() if there was one.
AppRunnerCleanup ==
    /\ pc = "app_runner_cleanup"
    /\ \E o \in PlainOutcomes :
        LET l == Append(log, Res("app_runner_cleanup", o.ev, 0)) IN
        IF TeardownNext(o) = "proceed"
        THEN /\ pc' = "finished"
             /\ listener' = "closed"
             /\ log' = l
             /\ result' = IF idleRaised THEN "raised" ELSE "returned"
        ELSE Raise(l) /\ listener' = listener
    /\ UNCHANGED <<storage, seqVars, plugVars, taskVars, ci, idleRaised,
                   procVars>>

\* -------------------------------------------------------- background tasks
Opaque == {"request_executor", "keepalive"}

\* The event loop gives a created task its first step: it runs to its first
\* await; schedule_token_cleanup awaits the sleep of line 172.
TaskStart(t) ==
    /\ pc \in SuspendedLabels
    /\ task[t] = "created"
    /\ t \notin cancelReq
    /\ task' = [task EXCEPT ![t] = IF t = "token_cleanup" THEN "sleep"
                                   ELSE "running"]
    /\ UNCHANGED <<pc, result, log, storage, seqVars, plugVars, cancelReq,
                   loopVars, downVars, procVars>>

\* Variant: the exception of one task cancels the other two.
TaskCrashCancelsOthers(t) ==
    /\ pc \in SuspendedLabels
    /\ t \in {"request_executor", "keepalive"}
    /\ task[t] = "running"
    /\ t \notin cancelReq
    /\ task' = [task EXCEPT ![t] = "crashed"]
    /\ cancelReq' = cancelReq \cup {u \in Tasks \ {t} : task[u] \notin Terminated}
    /\ UNCHANGED <<pc, result, log, storage, seqVars, plugVars,
                   loopVars, downVars, procVars>>

\* request_executor() or ping_server() raises and its task ends.
TaskCrash(t) ==
    /\ pc \in SuspendedLabels
    /\ t \in Opaque
    /\ task[t] = "running"
    /\ t \notin cancelReq
    /\ task' = [task EXCEPT ![t] = "crashed"]
    /\ UNCHANGED <<pc, result, log, storage, seqVars, plugVars, cancelReq,
                   loopVars, downVars, procVars>>

\* Variant: schedule_token_cleanup takes CancelledError for a failure.
CancelledStateAsFailure(t, st) ==
    IF t = "token_cleanup" /\ st # "created" THEN "crashed" ELSE "cancelled"

\* How a task ends when CancelledError is thrown into it:
\* schedule_token_cleanup catches it and breaks (lines 174-175).
CancelledState(t, st) ==
    IF t = "token_cleanup" /\ st # "created" THEN "done" ELSE "cancelled"

\* The requested cancellation reaches the task at its next step.
TaskCancelled(t) ==
    /\ pc \in SuspendedLabels
    /\ t \in cancelReq
    /\ task[t] \notin Terminated
    /\ task' = [task EXCEPT ![t] = CancelledState(t, task[t])]
    /\ cancelReq' = cancelReq \ {t}
    /\ UNCHANGED <<pc, result, log, storage, seqVars, plugVars, loopVars,
                   downVars, procVars>>

\* The recurrence interval of line 172, in seconds.
CleanupInterval == 3 * 3600

\* Line 172 resolves; line 173 awaits cleanup_expired_tokens().
TokenSleep ==
    /\ pc \in SuspendedLabels
    /\ task["token_cleanup"] = "sleep"
    /\ "token_cleanup" \notin cancelReq
    /\ tc_iter < MaxIter
    /\ task' = [task EXCEPT !["token_cleanup"] = "cleanup"]
    /\ tc_wait' = tc_wait + CleanupInterval
    /\ UNCHANGED <<pc, result, log, storage, seqVars, plugVars, cancelReq,
                   tc_iter, tc_fails, downVars, procVars>>

\* Variant: an Exception of cleanup_expired_tokens() ends the task.
TokenCleanupNextDies(o) == IF o.ev = "err" THEN "crashed" ELSE "sleep"

\* Variant: after an Exception the cleanup is called again at once.
TokenCleanupNextRetryNow(o) == IF o.ev = "err" THEN "cleanup" ELSE "sleep"

\* Where the loop of line 170 goes after cleanup_expired_tokens() resolved:
\* an Exception is logged (lines 176-177) and the loop goes on.
TokenCleanupNext(o) == "sleep"

\* Line 173 resolves: the iteration ends and the loop starts the next one.
TokenCleanup ==
    /\ pc \in SuspendedLabels
    /\ task["token_cleanup"] = "cleanup"
    /\ "token_cleanup" \notin cancelReq
    /\ \E o \in PlainOutcomes :
        /\ task' = [task EXCEPT !["token_cleanup"] = TokenCleanupNext(o)]
        /\ tc_fails' = IF o.ev = "err" THEN tc_fails + 1 ELSE 0
    /\ tc_iter' = tc_iter + 1
    /\ tc_wait' = 0
    /\ UNCHANGED <<pc, result, log, storage, seqVars, plugVars, cancelReq,
                   downVars, procVars>>

\* ------------------------------------------------------------ the process
Live(t) == task[t] \notin Terminated \cup {"none"}

\* asyncio.run (lines 185-189): once start_services has ended, the tasks
\* still alive are cancelled and run to their end, and the process ends.
RunnerClose ==
    /\ pc = "finished"
    /\ pc' = "exited"
    /\ task' = [t \in Tasks |-> IF Live(t) THEN CancelledState(t, task[t])
                                ELSE task[t]]
    /\ cancelReq' = {}
    /\ UNCHANGED <<result, log, storage, seqVars, plugVars, loopVars,
                   downVars, procVars>>

\* The process of this run deleted a restart notice from storage.
DeletedNotice ==
    \E i \in 1..Len(log) :
        log[i].op = "delete_restart_message" /\ log[i].ev = "ok"

\* The service is started again (line 183): only the storage of db
\* outlives the process.
Restart ==
    /\ pc = "exited"
    /\ run < MaxRuns
    /\ run' = run + 1
    /\ resolvedRuns' = resolvedRuns + (IF DeletedNotice THEN 1 ELSE 0)
    /\ pc' = "begin"
    /\ sequencer' = "Idle"
    /\ result' = "none"
    /\ log' = <<>>
    /\ restart_message_data' = 0
    /\ username' = 0
    /\ username_writes' = 0
    /\ task' = [t \in Tasks |-> "none"]
    /\ cancelReq' = {}
    /\ tc_iter' = 0
    /\ tc_fails' = 0
    /\ tc_wait' = 0
    /\ ci' = 0
    /\ idleRaised' = FALSE
    /\ listener' = "none"
    /\ UNCHANGED <<storage, plugVars>>

Next ==
    \/ Begin \/ Start1 \/ SleepStart \/ Start2
    \/ GetMe1 \/ SleepGetMe \/ GetMe2
    \/ SetCommands \/ GetRestartMessage \/ EditMessageText
    \/ DeleteRestartMessage \/ SleepEdit
    \/ InitializeClients \/ Glob \/ PluginLoop \/ PluginReport
    \/ CreateTasks \/ WebServer \/ AppRunnerSetup \/ SiteStart
    \/ Idle \/ Cancel
    \/ CleanupClients \/ RateLimiterShutdown \/ AppRunnerCleanup
    \/ \E t \in Tasks : TaskStart(t)
    \/ \E t \in Tasks : TaskCrash(t)
    \/ \E t \in Tasks : TaskCancelled(t)
    \/ TokenSleep \/ TokenCleanup
    \/ RunnerClose \/ Restart

Spec == Init /\ [][Next]_vars

TypeOK ==
    /\ pc \in SuspendedLabels \cup SyncLabels \cup
          {"start1", "sleep_start", "start2", "get_me1", "sleep_get_me",
           "get_me2", "set_commands", "get_restart_message",
           "edit_message_text", "delete_restart_message", "sleep_edit",
           "initialize_clients"}
    /\ sequencer \in {"Idle", "ClientConnecting", "IdentityFetching",
                      "CommandsRegistering", "RestartNoticeResolving",
                      "Ready", "Failed"}
    /\ result \in {"none", "failed", "returned", "raised"}
    /\ storage \subseteq NoticeIds
    /\ restart_message_data \in NoticeIds \cup {0}
    /\ cancelReq \subseteq Tasks
    /\ tc_iter \in 0..MaxIter
    /\ tc_fails \in 0..tc_iter
    /\ tc_wait \in {0, CleanupInterval}
    /\ username_writes \in 0..1
    /\ ci \in 0..Len(TaskOrder)
    /\ listener \in {"none", "open", "closed"}
    /\ run \in 1..MaxRuns

\* ------------------------------------------------------ reading the log
Entries(op, ev) == {i \in 1..Len(log) : log[i].op = op /\ log[i].ev = ev}
Called(op) == Entries(op, "call") # {}
Resolved(op) == \E i \in 1..Len(log) : log[i].op = op /\ log[i].ev # "call"
Count(op, ev) == Cardinality(Entries(op, ev))
\* Outcomes of the calls of op, in order.
Outcomes(op) ==
    SelectSeq(log, LAMBDA e : e.op = op /\ e.ev # "call")
Ended == pc \in {"finished", "exited"}
\* Every entry with index in S comes before every entry with index in T.
AllBefore(S, T) == \A i \in S, j \in T : i < j

\* -------------------------------------------------------------------- C1
\* C1: when the idle wait has ended, task.cancel() has been called for all
\* three tasks before cleanup_clients() is called, cleanup_clients() before
\* rate_limiter.shutdown(), and that before app_runner.cleanup(), whatever
\* steps the background tasks took.
TeardownOrder ==
    /\ Called("cleanup_clients") =>
          /\ \A k \in 1..Len(TaskOrder) :
                \E i \in Entries("cancel", "call") :
                    log[i].arg = k /\ AllBefore({i}, Entries("cleanup_clients", "call"))
          /\ AllBefore(Entries("idle", "ok") \cup Entries("idle", "err"),
                       Entries("cancel", "call"))
          /\ \A t \in Tasks : t \in cancelReq \/ task[t] \in Terminated
    /\ Called("rate_limiter_shutdown") =>
          /\ Called("cleanup_clients")
          /\ AllBefore(Entries("cleanup_clients", "call"),
                       Entries("rate_limiter_shutdown", "call"))
    /\ Called("app_runner_cleanup") =>
          /\ Called("rate_limiter_shutdown")
          /\ AllBefore(Entries("rate_limiter_shutdown", "call"),
                       Entries("app_runner_cleanup", "call"))

\* A whole teardown after the cleanup loop iterated and a task crashed.
TeardownOrderWitness ==
    /\ pc = "finished"
    /\ result = "returned"
    /\ Called("app_runner_cleanup")
    /\ tc_iter >= 1
    /\ task["keepalive"] = "crashed"
    /\ "request_executor" \in cancelReq

\* -------------------------------------------------------------------- C2
\* C2: once the teardown has begun, all four steps are executed even if
\* one of them fails.
TeardownBestEffort ==
    (Ended /\ Called("cancel")) =>
        /\ Called("cleanup_clients")
        /\ Called("rate_limiter_shutdown")
        /\ Called("app_runner_cleanup")

\* -------------------------------------------------------------------- C3
StartupOps == {"get_me", "set_commands", "get_restart_message",
               "edit_message_text", "delete_restart_message"}
\* Every call of the sequencer after the connect succeeded.
LaterStepsSucceed ==
    \A i \in 1..Len(log) :
        (log[i].op \in StartupOps /\ log[i].ev # "call") => log[i].ev = "ok"
TryBlockLeft ==
    pc \notin {"begin", "start1", "sleep_start", "start2", "get_me1",
               "sleep_get_me", "get_me2", "set_commands",
               "get_restart_message", "edit_message_text",
               "delete_restart_message", "sleep_edit"}

\* C3: StreamBot.start() is called at most twice; after FloodWait(w) on the
\* first attempt there is exactly one sleep, of w, before the second
\* attempt, and if that succeeds and the later steps succeed the sequencer
\* reaches Ready; a second FloodWait, or any other error on either attempt,
\* makes the sequencer Failed.
ConnectSingleRetry ==
    LET o == Outcomes("start") IN
    /\ Count("start", "call") <= 2
    /\ (Len(o) >= 1 /\ o[1].ev = "fw") =>
          /\ Len(log) >= 3
          /\ log[3] = Call("sleep", o[1].arg)
          /\ (Called("get_me") \/ Count("start", "call") = 2) =>
                /\ Len(log) >= 4
                /\ log[4] = Call("start", 0)
                /\ \A i \in Entries("sleep", "call") :
                      AllBefore({i}, Entries("get_me", "call")) => i = 3
    /\ (Len(o) >= 1 /\ o[1].ev = "ok") => Count("start", "call") = 1
    /\ (Len(o) = 2 /\ o[1].ev = "fw" /\ o[2].ev = "ok" /\ LaterStepsSucceed) =>
          /\ sequencer # "Failed"
          /\ TryBlockLeft => sequencer = "Ready"
    /\ (\/ Len(o) >= 1 /\ o[1].ev = "err"
        \/ Len(o) = 2 /\ o[2].ev # "ok") =>
          /\ sequencer = "Failed"
          /\ Ended
          /\ ~Called("get_me")

\* One FloodWait, then success, and the sequencer is Ready.
ConnectSingleRetryWitness ==
    /\ Len(Outcomes("start")) = 2
    /\ Outcomes("start")[1].ev = "fw"
    /\ Outcomes("start")[2].ev = "ok"
    /\ sequencer = "Ready"

\* -------------------------------------------------------------------- C4
\* C4: a set_commands() that raises does not make the sequencer Failed; the
\* sequencer reaches Ready.
CommandsFailureNonFatal ==
    Count("set_commands", "err") > 0 =>
        /\ sequencer # "Failed"
        /\ TryBlockLeft => sequencer = "Ready"

\* -------------------------------------------------------------------- C5
PluginsStarted == Called("import_plugins") \/ pc \in {"glob", "plugin_loop", "plugin_report"}
TasksLaunched == \E t \in Tasks : task[t] # "none"

\* C5: plugins are loaded, tasks launched and the listener opened only when
\* the sequencer is Ready; tasks are launched only after import_plugins
\* returned; when the sequencer is Failed none of them has happened.
ServeOnlyWhenReady ==
    /\ (PluginsStarted \/ TasksLaunched \/ Called("create_task")
           \/ Called("site_start") \/ listener # "none") => sequencer = "Ready"
    /\ (TasksLaunched \/ Called("create_task")) =>
          /\ Resolved("import_plugins")
          /\ AllBefore(Entries("import_plugins", "ok"),
                       Entries("create_task", "call"))
    /\ sequencer = "Failed" =>
          /\ ~PluginsStarted
          /\ attempted = {}
          /\ ~TasksLaunched
          /\ ~Called("create_task")
          /\ ~Called("web_server")
          /\ listener = "none"
          /\ Ended

\* The service is up: tasks running and the listener open.
ServeOnlyWhenReadyWitness ==
    /\ pc = "idle"
    /\ listener = "open"
    /\ \A t \in Tasks : task[t] \in {"running", "sleep"}

\* -------------------------------------------------------------------- C6
Names(seq) == {seq[i] : i \in 1..Len(seq)}
FailingFiles == {plugins[i].name : i \in {j \in 1..Len(plugins) : plugins[j].load # "ok"}}
AllFiles == {plugins[i].name : i \in 1..Len(plugins)}

\* C6 at the end of the loop: every file was attempted, success_count is
\* N - K, failed_plugins holds exactly the K failing names.
LoadReportExact ==
    pc = "plugin_report" =>
        /\ attempted = AllFiles
        /\ success_count = Len(plugins) - Cardinality(FailingFiles)
        /\ Names(failed_plugins) = FailingFiles
        /\ Len(failed_plugins) = Cardinality(FailingFiles)

\* C6: the loader attempts all N files, reports N - K successes and exactly
\* the K failing names; import_plugins always returns (to the task
\* creation of line 144), with the number of successes; with no file it
\* returns 0 with nothing recorded.
PluginIsolation ==
    /\ [](LoadReportExact)
    /\ [][(pc = "plugin_loop" /\ pc' # "plugin_loop") => pc' = "plugin_report"]_vars
    /\ [][pc = "plugin_report" =>
            /\ pc' = "create_tasks"
            /\ log' = Append(log, Res("import_plugins", "ok",
                                      Len(plugins) - Cardinality(FailingFiles)))]_vars
    /\ [][(pc = "glob" /\ pc' # "plugin_loop") =>
            /\ pc' = "create_tasks"
            /\ log' = Append(log, Res("import_plugins", "ok", 0))
            /\ failed_plugins' = <<>>
            /\ attempted' = {}]_vars

\* Two files, the first raises while executing, the second loads.
PluginIsolationWitness ==
    /\ pc = "plugin_report"
    /\ Len(plugins) = 2
    /\ plugins[1].load = "exc"
    /\ plugins[2].load = "ok"
    /\ success_count = 1

\* -------------------------------------------------------------------- C7
\* C7: after an edit that raised MessageNotModified the sequencer is Ready
\* and the notice is no longer in storage.
NotModifiedDeletesNotice ==
    Count("edit_message_text", "notmod") > 0 =>
        /\ sequencer = "Ready"
        /\ restart_message_data \notin storage

\* -------------------------------------------------------------------- C8
\* C8: after an edit that raised FloodWait(w) the next step is one sleep of
\* w; the edit is not called again, the delete is never called, the notice
\* stays in storage and the sequencer reaches Ready.
EditFloodWaitNoRetry ==
    \A i \in Entries("edit_message_text", "fw") :
        /\ i + 1 <= Len(log)
        /\ log[i + 1] = Call("sleep", log[i].arg)
        /\ Count("edit_message_text", "call") = 1
        /\ ~Called("delete_restart_message")
        /\ restart_message_data \in storage
        /\ sequencer # "Failed"
        /\ pc # "sleep_edit" => sequencer = "Ready"
        /\ \A j \in Entries("sleep", "call") : j > i => j = i + 1

\* The edit was rate limited and the sequencer is Ready.
EditFloodWaitNoRetryWitness ==
    /\ Count("edit_message_text", "fw") = 1
    /\ sequencer = "Ready"
    /\ pc = "idle"

\* -------------------------------------------------------------------- C9
\* C9: after connect and identity fetch succeeded, an edit that raises
\* another error leaves the notice in place and the sequencer reaches Ready.
EditErrorNonFatal ==
    Count("edit_message_text", "err") > 0 =>
        /\ restart_message_data \in storage
        /\ sequencer # "Failed"
        /\ TryBlockLeft => sequencer = "Ready"

TC == "token_cleanup"
LoopRunning == task[TC] \in {"sleep", "cleanup"}

\* C11: an iteration of schedule_token_cleanup that ends, with or without
\* an Exception, leaves the loop running; only a cancellation ends the
\* loop; once cancellation is requested no cleanup_expired_tokens() call is
\* started, and an ended loop stays ended.
CleanupLoopResilient ==
    /\ []((tc_fails > 0 /\ ~Called("cancel") /\ ~Ended) => LoopRunning)
    /\ [][tc_iter < tc_iter' => (task'[TC] = "sleep" /\ LoopRunning')]_vars
    /\ [][(task'[TC] \in Terminated /\ task[TC] \notin Terminated) =>
            (TC \in cancelReq \/ pc = "finished")]_vars
    /\ [][(TC \in cancelReq) =>
            (task'[TC] = task[TC] \/ task'[TC] \in {"done", "cancelled"})]_vars
    /\ [][(task[TC] \in Terminated /\ pc # "exited") =>
            (task'[TC] = task[TC] /\ tc_iter' = tc_iter)]_vars

\* Two iterations in a row failed, the loop went on, and the cancellation
\* of the teardown ended it.
CleanupLoopResilientWitness ==
    /\ tc_fails = 2
    /\ task[TC] = "done"
    /\ pc = "cleanup_clients"

\* ------------------------------------------------------------------- C15
\* C15: cleanup_expired_tokens() is called only after a whole sleep of
\* three hours in the same iteration, the first time and after a failed
\* iteration alike; a cancellation that arrives during the sleep ends the
\* loop without a call.
CleanupSchedule ==
    /\ [](task[TC] = "cleanup" => tc_wait = CleanupInterval)
    /\ [](task[TC] = "sleep" => tc_wait = 0)
    /\ [](CleanupInterval = 10800)
    /\ [][(task'[TC] = "cleanup" /\ task[TC] # "cleanup") =>
            (task[TC] = "sleep" /\ TC \notin cancelReq /\ tc_iter' = tc_iter)]_vars
    /\ [][tc_iter < tc_iter' => (task'[TC] = "sleep" /\ tc_wait' = 0)]_vars
    /\ [][(task[TC] = "sleep" /\ (TC \in cancelReq \/ pc = "finished")) =>
            (task'[TC] \in {"sleep", "done"} /\ tc_iter' = tc_iter)]_vars
    /\ [][task[TC] = "created" => task'[TC] # "cleanup"]_vars

\* The call that follows a failed iteration, after its own sleep.
CleanupScheduleWitness ==
    /\ task[TC] = "cleanup"
    /\ tc_fails = 1
    /\ tc_wait = CleanupInterval

\* ------------------------------------------------------------------- C12
\* C12: StreamBot.get_me() is called at most twice; FloodWait(w) on the
\* first attempt is followed by one sleep of w and one retry; when the
\* fetch succeeds the identity is cached and set_commands() follows; a
\* second FloodWait, or another error on either attempt, makes the
\* sequencer Failed with no identity cached and no later step.
IdentitySingleRetry ==
    LET o == Outcomes("get_me") IN
    /\ Count("get_me", "call") <= 2
    /\ \A i \in Entries("get_me", "fw") :
          (\A j \in 1..(i - 1) : ~(log[j].op = "get_me" /\ log[j].ev # "call")) =>
              /\ i + 1 <= Len(log)
              /\ log[i + 1] = Call("sleep", log[i].arg)
              /\ i + 2 <= Len(log) => log[i + 2] = Call("get_me", 0)
    /\ (Len(o) = 1 /\ o[1].ev = "fw") => sequencer = "IdentityFetching"
    /\ (Len(o) >= 1 /\ o[1].ev = "ok") => Count("get_me", "call") = 1
    /\ (Len(o) >= 1 /\ o[Len(o)].ev = "ok") =>
          /\ username = 1
          /\ username_writes = 1
          /\ Called("set_commands")
    /\ (\/ Len(o) >= 1 /\ o[1].ev = "err"
        \/ Len(o) = 2 /\ o[2].ev # "ok") =>
          /\ sequencer = "Failed"
          /\ result = "failed"
          /\ Ended
          /\ username = 0
          /\ ~Called("set_commands")
          /\ ~Called("get_restart_message")

\* One FloodWait of get_me, then success: the identity is cached.
IdentitySingleRetryWitness ==
    /\ Len(Outcomes("get_me")) = 2
    /\ Outcomes("get_me")[1].ev = "fw"
    /\ Outcomes("get_me")[2].ev = "ok"
    /\ username = 1
    /\ sequencer = "Ready"

\* ------------------------------------------------------------------- C13
\* C13, as stated: once cleanup_clients() has been called every task has
\* ended.
TasksEndedBeforeRelease ==
    Called("cleanup_clients") => \A t \in Tasks : task[t] \in Terminated

\* C13, amended: once cleanup_clients() has been called every task has
\* ended or has a cancellation requested; a task may still be alive then,
\* and the only step the cleanup loop takes afterwards is its end.
TasksSignalledBeforeRelease ==
    /\ [](Called("cleanup_clients") =>
            \A t \in Tasks : task[t] \in Terminated \/ t \in cancelReq)
    /\ [][(Called("cleanup_clients") /\ pc # "exited") =>
            /\ task'[TC] = task[TC] \/ task'[TC] \in Terminated
            /\ tc_iter' = tc_iter]_vars

\* The clients are being released while two tasks are still alive.
TasksSignalledBeforeReleaseWitness ==
    /\ pc = "rate_limiter_shutdown"
    /\ task[TC] = "cleanup"
    /\ TC \in cancelReq
    /\ task["request_executor"] = "running"

\* ------------------------------------------------------------------- C14
Rank(q) ==
    CASE q = "Idle" -> 0
      [] q = "ClientConnecting" -> 1
      [] q = "IdentityFetching" -> 2
      [] q = "CommandsRegistering" -> 3
      [] q = "RestartNoticeResolving" -> 4
      [] q = "Ready" -> 5
      [] q = "Failed" -> 6
OpOrder == <<"start", "get_me", "set_commands", "get_restart_message",
             "edit_message_text", "delete_restart_message",
             "initialize_clients", "import_plugins", "create_task",
             "web_server", "app_runner_setup", "site_start", "idle", "cancel",
             "cleanup_clients", "rate_limiter_shutdown", "app_runner_cleanup">>
OpRank(op) ==
    CASE op = "start" -> 1
      [] op = "get_me" -> 2
      [] op = "set_commands" -> 3
      [] op = "get_restart_message" -> 4
      [] op = "edit_message_text" -> 5
      [] op = "delete_restart_message" -> 6
      [] op = "initialize_clients" -> 7
      [] op = "import_plugins" -> 8
      [] op = "create_task" -> 9
      [] op = "web_server" -> 10
      [] op = "app_runner_setup" -> 11
      [] op = "site_start" -> 12
      [] op = "idle" -> 13
      [] op = "cancel" -> 14
      [] op = "cleanup_clients" -> 15
      [] op = "rate_limiter_shutdown" -> 16
      [] op = "app_runner_cleanup" -> 17
      [] OTHER -> 0
\* Calls that are not awaited, or whose end is not recorded.
Unawaited == {"create_task", "cancel", "sleep"}
\* How often an operation may be called in one process.
MaxCalls(op) ==
    IF op \in {"start", "get_me"} THEN 2
    ELSE IF op \in {"create_task", "cancel"} THEN 3
    ELSE 1
\* The entry before entry k of l, sleeps left out.
StepBefore(l, k) == IF l[k - 1].op = "sleep" /\ k > 2 THEN l[k - 2] ELSE l[k - 1]
\* Entry k of l, just appended, continues l in the fixed order.
InOrder(l, k) ==
    LET e == l[k] IN
    /\ (k > 1 /\ e.op # "sleep") => OpRank(StepBefore(l, k).op) <= OpRank(e.op)
    /\ (e.ev = "call" /\ e.op # "sleep") =>
          Cardinality({i \in 1..(k - 1) : l[i].op = e.op /\ l[i].ev = "call"})
             < MaxCalls(e.op)
    /\ (k > 1 /\ l[k - 1].ev = "call" /\ l[k - 1].op \notin Unawaited) =>
          (e.op = l[k - 1].op /\ e.ev # "call")
    /\ e.ev # "call" =>
          (k > 1 /\ l[k - 1].op = e.op /\ l[k - 1].ev = "call")

\* C14: within a process the sequencer only moves forward, one state at a
\* time or to Failed, and never leaves Ready or Failed; the log only grows,
\* and every call added to it comes in the fixed order, each step once
\* (connect and identity fetch at most twice, for the retry), and only when
\* the call before it has resolved.
LinearStartup ==
    /\ [][pc # "exited" =>
            /\ Rank(sequencer') >= Rank(sequencer)
            /\ (Rank(sequencer') \in {Rank(sequencer), Rank(sequencer) + 1}
                  \/ sequencer' = "Failed")
            /\ (sequencer \in {"Ready", "Failed"} => sequencer' = sequencer)]_vars
    /\ [][pc # "exited" =>
            /\ Len(log') >= Len(log)
            /\ SubSeq(log', 1, Len(log)) = log
            /\ \A k \in (Len(log) + 1)..Len(log') : InOrder(log', k)]_vars
    /\ [](\A k \in 1..Len(OpOrder) : OpRank(OpOrder[k]) = k)
    /\ [](sequencer = "Ready" <=> Called("initialize_clients"))

\* A whole pass: connect retried, notice resolved, service run and torn down.
LinearStartupWitness ==
    /\ pc = "finished"
    /\ result = "returned"
    /\ Count("start", "call") = 2
    /\ Called("delete_restart_message")
    /\ Called("app_runner_cleanup")

\* ------------------------------------------------------------------- C16
\* C16: StreamBot.username is assigned at most once in a process, only when
\* get_me() has just succeeded, before any task exists, and not while
\* tasks or the listener exist; it is not assigned when get_me() failed.
IdentityWrittenOnce ==
    /\ [](username_writes <= 1)
    /\ []((username # 0) <=> (username_writes = 1))
    /\ [](username_writes = Count("get_me", "ok"))
    /\ [][(username_writes' # username_writes /\ pc # "exited") =>
            /\ ~TasksLaunched /\ ~TasksLaunched'
            /\ listener' = "none"
            /\ sequencer' = "CommandsRegistering"
            /\ log'[Len(log') - 1].op = "get_me"
            /\ log'[Len(log') - 1].ev = "ok"]_vars
    /\ [][((TasksLaunched \/ listener # "none") /\ pc # "exited") =>
            UNCHANGED idVars]_vars

\* The service runs with the identity assigned once.
IdentityWrittenOnceWitness ==
    /\ pc = "idle"
    /\ username = 1
    /\ username_writes = 1
    /\ task["request_executor"] = "running"
    /\ listener = "open"

\* ------------------------------------------------------------------- C17
\* C17: when request_executor or ping_server ends by raising, the other
\* tasks, the position of start_services and the listener are left as they
\* are; the idle wait is left only when idle() itself resolves.
TasksIndependent ==
    /\ [][\A t \in Opaque :
            (task'[t] = "crashed" /\ task[t] # "crashed") =>
                /\ pc' = pc
                /\ listener' = listener
                /\ cancelReq' = cancelReq
                /\ log' = log
                /\ \A u \in Tasks \ {t} : task'[u] = task[u]]_vars
    /\ [](pc = "idle" =>
            (listener = "open" /\ cancelReq = {} /\ ~Called("cancel")))
    /\ [][(pc = "idle" /\ pc' # "idle") =>
            (Len(log') = Len(log) + 1 /\ log'[Len(log')].op = "idle")]_vars

\* One task has crashed; the others run and the service is up.
TasksIndependentWitness ==
    /\ pc = "idle"
    /\ task["request_executor"] = "crashed"
    /\ task["keepalive"] = "running"
    /\ task[TC] = "cleanup"
    /\ tc_iter = 1
    /\ listener = "open"

\* ------------------------------------------------------------------- C18
TeardownOps == {"cleanup_clients", "rate_limiter_shutdown", "app_runner_cleanup"}

\* C18: task.cancel() raises nothing, whatever the state of the task: the
\* loop of line 161 always reaches cleanup_clients(); a request to an ended
\* task leaves nothing pending and leaves its state as it is; the cleanup
\* loop ends a cancellation as done, never as crashed; the teardown calls
\* that follow all run unless one of them raises.
CancelIdempotent ==
    /\ [][pc = "cancel" =>
            (pc' \in {"cancel", "cleanup_clients"} /\ task' = task
               /\ result' = result)]_vars
    /\ [](Count("cancel", "call") = 3 => Called("cleanup_clients"))
    /\ [](\A t \in cancelReq : task[t] \notin Terminated)
    /\ [][\A t \in Tasks :
            (task[t] \in Terminated /\ pc # "exited") => task'[t] = task[t]]_vars
    /\ [](task[TC] # "crashed")
    /\ [][(LoopRunning /\ ~LoopRunning') => task'[TC] = "done"]_vars
    /\ []((Ended /\ Called("cancel")
             /\ \A i \in 1..Len(log) :
                   log[i].op \in TeardownOps => log[i].ev # "err") =>
            \A op \in TeardownOps : Called(op))

\* The teardown ran to its end over a crashed, a cancelled and a cleanly
\* ended task.
CancelIdempotentWitness ==
    /\ pc = "finished"
    /\ Called("app_runner_cleanup")
    /\ task["keepalive"] = "crashed"
    /\ task["request_executor"] = "cancelled"
    /\ task[TC] = "done"

\* ------------------------------------------------------------------- C19
\* C19: when the tasks were created, start_services does not end without
\* the three task.cancel() calls and the call of cleanup_clients().
TeardownOnEveryExit ==
    (Ended /\ Called("create_task")) =>
        (Count("cancel", "call") = 3 /\ Called("cleanup_clients"))

\* ------------------------------------------------------------------- C20
\* C20: when the sequencer is Failed, start_services has returned with no
\* teardown call made, also after a connect that succeeded; the storage is
\* not written from then on, and a notice that was read is still there.
FailedSkipsTeardown ==
    /\ [](sequencer = "Failed" =>
            /\ result = "failed"
            /\ Ended
            /\ \A op \in TeardownOps \cup {"cancel", "initialize_clients",
                                           "delete_restart_message"} :
                  ~Called(op)
            /\ restart_message_data # 0 => restart_message_data \in storage)
    /\ [][sequencer' = "Failed" => storage' = storage]_vars

\* The connect succeeded, the edit failed: no teardown, the notice is kept.
FailedSkipsTeardownWitness ==
    /\ sequencer = "Failed"
    /\ pc = "exited"
    /\ Count("start", "ok") = 1
    /\ Count("edit_message_text", "err") = 1
    /\ restart_message_data \in storage
====
